---- MODULE Spec2Model ----
(***************************************************************************)
(* The coffee/toast examples of code_examples/concurrency and              *)
(* code_examples/multithreading: main() selects one of three programs,     *)
(* each of which runs CreateCoffee and CreateToast, either one after the   *)
(* other on the calling thread (01_sync.h), or through std::async          *)
(* (02_async), or through std::async with the start message written under  *)
(* the global coutMutex (03_async_cout_mutex.h), and reports the elapsed   *)
(* time in whole seconds.                                                  *)
(*                                                                         *)
(* Three executables are built from these files: concurrency/main.cpp      *)
(* (banner, switch on programId), multithreading/main.cpp (runs            *)
(* Program_03_async_cout_mutex) and multithreading/02_async/main.cpp       *)
(* (runs its class Program); the last two write no banner.                 *)
(*                                                                         *)
(* Time: sleep_for(d) blocks for at least d milliseconds.  When every      *)
(* context is blocked, time passes up to the earliest wake-up (Tick).      *)
(* Time may also pass, any number of times and Quantum milliseconds at a   *)
(* time, while contexts are still to run or after a sleep has expired      *)
(* (TickLate): the scheduler keeps threads waiting, the whole process may  *)
(* be stopped and continued, statements take time.  Run reads              *)
(* high_resolution_clock, which need not be steady: the reading is the     *)
(* steady time plus a skew that changes when the clock is set (ClockSet).  *)
(*                                                                         *)
(* std::async is called without a launch policy, so the library picks      *)
(* std::launch::async (a new thread) or std::launch::deferred (the task    *)
(* runs inside get() on the caller) for each call.                         *)
(*                                                                         *)
(* The console is the sequence of the writes made to std::cout.  An        *)
(* inserted string may be interleaved with the output of other threads;    *)
(* it is written in TextPieces pieces.                                     *)
(***************************************************************************)
EXTENDS Integers, Sequences, FiniteSets, TLC

VARIABLES
    programId,  \* main: int programId
    program,    \* the program object the switch of main runs ("none" before)
    mainPc,     \* position of the calling thread in main / Run
    mainIdx,    \* which call of the current group of calls in Run is next
    where,      \* per unit: the context its body runs in
    upc,        \* per unit: index of the next statement of its body
    piece,      \* per unit: pieces already written of the string being inserted
    coutMutex,  \* owner of std::mutex coutMutex ("none" when unlocked)
    console,    \* the writes made to std::cout, in order
    now,        \* steady time, in milliseconds (what sleep_for waits on)
    wake,       \* per unit: time at which its sleep_for returns
    start,      \* Run: auto start
    stop,       \* Run: auto stop
    duration,   \* Run: duration.count()
    exitCode,   \* value returned by main (-1 while main runs)
    acquired,   \* per unit: lock_guard constructions that have returned
    released,   \* per unit: lock_guard destructions
    awaited,    \* per unit: number of get() calls made on its future
    exhausted,  \* per unit: std::async could not start a thread for it
    skew,       \* high_resolution_clock::now() minus the steady time
    late,       \* time has passed that no sleep_for asked for (TickLate)
    entry       \* the main() that runs: which of the executables

vars == <<programId, program, mainPc, mainIdx, where, upc, piece, coutMutex,
          console, now, wake, start, stop, duration, exitCode,
          acquired, released, awaited, exhausted,
                   skew, late, entry>>

---------------------------------------------------------------------------
(* Bounds *)

\* Largest programId tried (the ids are 0..MaxProgramId).
MaxProgramId == 4

\* Number of pieces in which an inserted string reaches the console.
TextPieces == 1

\* TickLate lets time pass up to this time, in milliseconds after the first
\* clock reading of Run.
MaxNow == 3000

\* The clock is set back by at most this many seconds.
MaxClockBack == 10

\* The clock is set forward by at most this many seconds.
MaxClockForward == 1

ProgramIds == 0..MaxProgramId

---------------------------------------------------------------------------
(* The programs *)

Units == {"coffee", "toast"}

CoffeeMillis == 2000

ToastMillis == 3000

\* The two sleep_for arguments exchanged.
DurationMsSwapped(u) == IF u = "coffee" THEN ToastMillis ELSE CoffeeMillis

\* The argument of sleep_for in CreateCoffee / CreateToast.
DurationMs(u) == IF u = "coffee" THEN CoffeeMillis ELSE ToastMillis

\* The grain of time: half the difference of the two sleeps, so that a
\* thread can be late by less and by more than that difference.
Quantum == (ToastMillis - CoffeeMillis) \div 2

\* The amounts by which the clock can be set, in milliseconds (negative:
\* back).
ClockSetAmounts ==
    {k * 1000 : k \in (-MaxClockBack)..MaxClockForward} \ {0}

\* The executables: concurrency/main.cpp, multithreading/main.cpp,
\* multithreading/02_async/main.cpp.
Entries == {"concurrency", "multithreading", "02_async"}

\* The program whose Run the main() of an executable without switch calls.
EntryProgram(e) ==
    IF e = "multithreading" THEN "Program_03_async_cout_mutex"
                            ELSE "Program_02_async"

\* The string inserted before the sleep.
StartText(u) == IF u = "coffee" THEN "Creating coffee..." ELSE "Creating toast..."

\* The string inserted after the sleep.
FinishText(u) == IF u = "coffee" THEN "Created coffee!" ELSE "Created toast!"

\* The statements of CreateCoffee / CreateToast of 01_sync.h.
\* "sleep_for" is the call, "asleep" the thread blocked inside it.
Body_01_sync ==
    <<"write_start", "endl_start", "sleep_for", "asleep",
      "write_finish", "endl_finish">>

\* The lambdas of Program (02_async) with the lock_guard block of
\* 03_async_cout_mutex.h around the start line.
Body_02_Guarded ==
    <<"lock", "write_start", "endl_start", "unlock", "sleep_for", "asleep",
      "write_finish", "endl_finish">>

\* The statements of the lambdas of Program (02_async).
Body_02_async ==
    <<"write_start", "endl_start", "sleep_for", "asleep",
      "write_finish", "endl_finish">>

\* The lambdas of 03_async_cout_mutex.h with the lock_guard destroyed at the
\* end of the lambda instead of at the end of the inner block.
Body_03_LockHeldToEnd ==
    <<"lock", "write_start", "endl_start", "sleep_for", "asleep",
      "write_finish", "endl_finish", "unlock">>

\* The lambdas of 03_async_cout_mutex.h without the lock_guard.
Body_03_NoLock ==
    <<"write_start", "endl_start", "sleep_for", "asleep",
      "write_finish", "endl_finish">>

\* The lambdas of 03_async_cout_mutex.h with a lock() that is never undone.
Body_03_NeverUnlocked ==
    <<"lock", "write_start", "endl_start", "sleep_for", "asleep",
      "write_finish", "endl_finish">>

\* The lambdas of 03_async_cout_mutex.h with a second lock_guard block around
\* the finish line.
Body_03_GuardsBothMessages ==
    <<"lock", "write_start", "endl_start", "unlock", "sleep_for", "asleep",
      "lock", "write_finish", "endl_finish", "unlock">>

\* The lambdas of 03_async_cout_mutex.h with a lock_guard of its own around
\* each of the two insertions of the start line.
Body_03_LockPerInsertion ==
    <<"lock", "write_start", "unlock", "lock", "endl_start", "unlock",
      "sleep_for", "asleep", "write_finish", "endl_finish">>

\* The statements of the lambdas of Program_03_async_cout_mutex: the inner
\* block constructs the lock_guard ("lock"), writes the start message and
\* destroys the lock_guard ("unlock") at its closing brace.
Body_03_async_cout_mutex ==
    <<"lock", "write_start", "endl_start", "unlock", "sleep_for", "asleep",
      "write_finish", "endl_finish">>

\* Every function writing both messages before it sleeps.
BodyFinishBeforeSleep(p) ==
    IF p = "none" THEN << >>
    ELSE <<"write_start", "endl_start", "write_finish", "endl_finish",
           "sleep_for", "asleep">>

\* The statements of CreateCoffee / CreateToast of the program p.
Body(p) ==
    CASE p = "Program_01_async" -> Body_01_sync
      [] p = "Program_02_async" -> Body_02_async
      [] p = "Program_03_async_cout_mutex" -> Body_03_async_cout_mutex
      [] OTHER -> << >>

\* Run of 01_sync.h calls the two functions in this order.
CallOrderReversed == <<"toast", "coffee">>

\* Run of 01_sync.h calling CreateCoffee twice.
CallOrderCoffeeTwice == <<"coffee", "coffee">>

CallOrder == <<"coffee", "toast">>

\* Run of the async programs creates the two futures in this order ...
AsyncOrder == <<"coffee", "toast">>

\* Run calling get() on coffee_future twice.
GetOrderCoffeeTwice == <<"coffee", "coffee">>

\* ... and calls get() on them in this order.
GetOrder == <<"coffee", "toast">>

\* What std::async without a policy may do with the task.
LaunchPolicies == {"thread", "deferred"}

\* The choice of std::async(f), that is std::async(async | deferred, f):
\* either policy while a thread can be created; when none can be created
\* the task is deferred (system_error is thrown for policy == async only).
PoliciesWhen(avail) == IF avail THEN LaunchPolicies ELSE {"deferred"}

\* main's switch with the case labels of 2 and 3 exchanged.
SwitchSwapped(id) ==
    CASE id = 1 -> "Program_01_async"
      [] id = 2 -> "Program_03_async_cout_mutex"
      [] id = 3 -> "Program_02_async"
      [] OTHER -> "none"

\* main's switch (programId): the program of each case label, no default.
Switch(id) ==
    CASE id = 1 -> "Program_01_async"
      [] id = 2 -> "Program_02_async"
      [] id = 3 -> "Program_03_async_cout_mutex"
      [] OTHER -> "none"

\* duration_cast that keeps the milliseconds.
DurationCastMillis(ms) == ms

\* std::chrono::duration_cast<std::chrono::seconds>: truncation toward
\* zero, also of a negative difference (-1500 ms is -1 s, -999 ms is 0 s).
DurationCast(ms) == IF ms >= 0 THEN ms \div 1000 ELSE -((-ms) \div 1000)

\* get() that does not wait for the task.
FutureReadyAlways(u) == TRUE

\* A future of a task running on its own thread is ready when the lambda
\* has returned.
FutureReady(u) == upc[u] = Len(Body(program)) + 1

\* try-lock semantics that ignore the owner.
MutexFreeAlways == TRUE

\* std::mutex::lock() returns only when no thread owns the mutex.
MutexFree == coutMutex = "none"

---------------------------------------------------------------------------
(* The console *)

\* One piece of an inserted string, or an endl, written by `by`.
Chunk(by, text, part) == [by |-> by, text |-> text, part |-> part]

Endl(by) == Chunk(by, "\n", 1)

\* std::format("Running program , {}...", programId)
Banner(id) == "Running program , " \o ToString(id) \o "..."

Sequential == program = "Program_01_async"

Concurrent == program \in {"Program_02_async", "Program_03_async_cout_mutex"}

Synchronized == program = "Program_03_async_cout_mutex"

\* The unit whose body the calling thread is executing at "in_unit".
Current == IF Sequential THEN CallOrder[mainIdx] ELSE GetOrder[mainIdx]

\* The unit's body has been entered and has not returned.
Active(u) == upc[u] \in 1..Len(Body(program))

\* An executor that starts the toast task only when the coffee task has
\* begun to write.
RunsInDispatchOrder(u) ==
    /\ Active(u)
    /\ \/ where[u] = "thread"
       \/ where[u] = "caller" /\ mainPc = "in_unit" /\ Current = u
    /\ u = "toast" => \E i \in DOMAIN console : console[i].by = "coffee"

\* The context that executes the unit's body is at the unit's next statement.
Runs(u) ==
    /\ Active(u)
    /\ \/ where[u] = "thread"
       \/ where[u] = "caller" /\ mainPc = "in_unit" /\ Current = u

At(u) == IF Active(u) THEN Body(program)[upc[u]] ELSE "none"

---------------------------------------------------------------------------
Init ==
    /\ entry \in Entries
    /\ IF entry = "concurrency"
         THEN programId \in ProgramIds /\ mainPc = "banner"
         ELSE programId = 0 /\ mainPc = "construct"
    /\ program = "none"
    /\ mainIdx = 1
    /\ where = [u \in Units |-> "none"]
    /\ upc = [u \in Units |-> 0]
    /\ piece = [u \in Units |-> 0]
    /\ coutMutex = "none"
    /\ console = << >>
    /\ now = 0
    /\ skew = 0
    /\ late = FALSE
    /\ wake = [u \in Units |-> 0]
    /\ start = 0
    /\ stop = 0
    /\ duration = 0
    /\ exitCode = -1
    /\ acquired = [u \in Units |-> 0]
    /\ released = [u \in Units |-> 0]
    /\ awaited = [u \in Units |-> 0]
    /\ exhausted = [u \in Units |-> FALSE]

---------------------------------------------------------------------------
(* main *)

\* main.cpp:9  std::cout << std::format(...)
MainBanner ==
    /\ mainPc = "banner"
    /\ console' = Append(console, Chunk("main", Banner(programId), 1))
    /\ mainPc' = "banner_endl"
    /\ UNCHANGED <<programId, program, mainIdx, where, upc, piece, coutMutex,
                   now, wake, start, stop, duration, exitCode,
                   acquired, released, awaited, exhausted,
                   skew, late, entry>>

\* main.cpp:9  << std::endl
MainBannerEndl ==
    /\ mainPc = "banner_endl"
    /\ console' = Append(console, Endl("main"))
    /\ mainPc' = "switch"
    /\ UNCHANGED <<programId, program, mainIdx, where, upc, piece, coutMutex,
                   now, wake, start, stop, duration, exitCode,
                   acquired, released, awaited, exhausted,
                   skew, late, entry>>

\* main.cpp:11-25  switch (programId): jump to the matching case and call
\* Run on its program, or leave the switch when no case matches.
MainSwitch ==
    /\ mainPc = "switch"
    /\ program' = Switch(programId)
    /\ mainPc' = IF Switch(programId) = "none" THEN "return" ELSE "start_clock"
    /\ UNCHANGED <<programId, mainIdx, where, upc, piece, coutMutex, console,
                   now, wake, start, stop, duration, exitCode,
                   acquired, released, awaited, exhausted,
                   skew, late, entry>>

\* multithreading/main.cpp:13-14, 02_async/main.cpp:47-48: main constructs
\* the program and calls Run; there is no banner and no switch.
MainConstruct ==
    /\ mainPc = "construct"
    /\ program' = EntryProgram(entry)
    /\ mainPc' = "start_clock"
    /\ UNCHANGED <<programId, mainIdx, where, upc, piece, coutMutex, console,
                   now, wake, start, stop, duration, exitCode,
                   acquired, released, awaited, exhausted,
                   skew, late, entry>>

\* main.cpp:27  return 0
MainReturn ==
    /\ mainPc = "return"
    /\ exitCode' = 0
    /\ mainPc' = "exited"
    /\ UNCHANGED <<programId, program, mainIdx, where, upc, piece, coutMutex,
                   console, now, wake, start, stop, duration,
                   acquired, released, awaited, exhausted,
                   skew, late, entry>>

---------------------------------------------------------------------------
(* Run *)

\* auto start = high_resolution_clock::now()
RunStartClock ==
    /\ mainPc = "start_clock"
    /\ start' = now + skew
    /\ mainIdx' = 1
    /\ mainPc' = IF Sequential THEN "call" ELSE "async"
    /\ UNCHANGED <<programId, program, where, upc, piece, coutMutex, console,
                   now, wake, stop, duration, exitCode,
                   acquired, released, awaited, exhausted,
                   skew, late, entry>>

\* 01_sync.h:12-13  CreateCoffee(); CreateToast();  the calling thread
\* enters the function.
RunCall ==
    /\ mainPc = "call"
    /\ LET u == CallOrder[mainIdx] IN
        /\ where' = [where EXCEPT ![u] = "caller"]
        /\ upc' = [upc EXCEPT ![u] = 1]
    /\ mainPc' = "in_unit"
    /\ UNCHANGED <<programId, program, mainIdx, piece, coutMutex, console,
                   now, wake, start, stop, duration, exitCode,
                   acquired, released, awaited, exhausted,
                   skew, late, entry>>

\* auto x_future = CreateX(): std::async(lambda) with the default policy
\* either starts the lambda on a new thread or stores it as a deferred task;
\* `avail` is whether the system can create a thread at this call.
RunAsync ==
    /\ mainPc = "async"
    /\ LET u == AsyncOrder[mainIdx] IN
        \E avail \in BOOLEAN : \E p \in PoliciesWhen(avail) :
            /\ where' = [where EXCEPT ![u] = p]
            /\ upc' = [upc EXCEPT ![u] = IF p = "thread" THEN 1 ELSE 0]
            /\ exhausted' = [exhausted EXCEPT ![u] = ~ avail]
    /\ IF mainIdx < Len(AsyncOrder)
         THEN mainIdx' = mainIdx + 1 /\ mainPc' = "async"
         ELSE mainIdx' = 1 /\ mainPc' = "get"
    /\ UNCHANGED <<programId, program, piece, coutMutex, console, now, wake,
                   start, stop, duration, exitCode,
                   acquired, released, awaited,
                   skew, late, entry>>

\* x_future.get() on a deferred task: the lambda runs on the calling thread.
RunGetDeferred ==
    /\ mainPc = "get"
    /\ LET u == GetOrder[mainIdx] IN
        /\ where[u] = "deferred"
        /\ where' = [where EXCEPT ![u] = "caller"]
        /\ upc' = [upc EXCEPT ![u] = 1]
    /\ mainPc' = "in_unit"
    /\ awaited' = [awaited EXCEPT ![GetOrder[mainIdx]] = @ + 1]
    /\ UNCHANGED <<programId, program, mainIdx, piece, coutMutex, console,
                   now, wake, start, stop, duration, exitCode,
                   acquired, released, exhausted,
                   skew, late, entry>>

\* x_future.get() on a task that runs on its own thread: Run makes the call
\* and is from then on inside get().
RunGetCall ==
    /\ mainPc = "get"
    /\ where[GetOrder[mainIdx]] = "thread"
    /\ mainPc' = "in_get"
    /\ awaited' = [awaited EXCEPT ![GetOrder[mainIdx]] = @ + 1]
    /\ UNCHANGED <<programId, program, mainIdx, where, upc, piece, coutMutex,
                   console, now, wake, start, stop, duration, exitCode,
                   acquired, released, exhausted,
                   skew, late, entry>>

\* Run is blocked inside x_future.get() until the future is ready; get()
\* then returns.
RunGetWait ==
    /\ mainPc = "in_get"
    /\ FutureReady(GetOrder[mainIdx])
    /\ IF mainIdx < Len(GetOrder)
         THEN mainIdx' = mainIdx + 1 /\ mainPc' = "get"
         ELSE mainIdx' = 1 /\ mainPc' = "stop_clock"
    /\ UNCHANGED <<programId, program, where, upc, piece, coutMutex, console,
                   now, wake, start, stop, duration, exitCode,
                   acquired, released, awaited, exhausted,
                   skew, late, entry>>

\* The body executed on the calling thread (a called function, or a deferred
\* task inside get()) returns to Run.
RunUnitReturns ==
    /\ mainPc = "in_unit"
    /\ upc[Current] = Len(Body(program)) + 1
    /\ LET order == IF Sequential THEN CallOrder ELSE GetOrder IN
        IF mainIdx < Len(order)
          THEN /\ mainIdx' = mainIdx + 1
               /\ mainPc' = IF Sequential THEN "call" ELSE "get"
          ELSE /\ mainIdx' = 1
               /\ mainPc' = "stop_clock"
    /\ UNCHANGED <<programId, program, where, upc, piece, coutMutex, console,
                   now, wake, start, stop, duration, exitCode,
                   acquired, released, awaited, exhausted,
                   skew, late, entry>>

\* auto stop = high_resolution_clock::now()
RunStopClock ==
    /\ mainPc = "stop_clock"
    /\ stop' = now + skew
    /\ mainPc' = "duration_cast"
    /\ UNCHANGED <<programId, program, mainIdx, where, upc, piece, coutMutex,
                   console, now, wake, start, duration, exitCode,
                   acquired, released, awaited, exhausted,
                   skew, late, entry>>

\* auto duration = duration_cast<seconds>(stop - start)
RunDurationCast ==
    /\ mainPc = "duration_cast"
    /\ duration' = DurationCast(stop - start)
    /\ mainPc' = "total_text"
    /\ UNCHANGED <<programId, program, mainIdx, where, upc, piece, coutMutex,
                   console, now, wake, start, stop, exitCode,
                   acquired, released, awaited, exhausted,
                   skew, late, entry>>

\* std::cout << "Total time = " << duration.count() << " seconds" << std::endl
\* one insertion at a time.
RunTotal ==
    /\ mainPc \in {"total_text", "total_count", "total_seconds", "total_endl"}
    /\ console' = Append(console,
          CASE mainPc = "total_text" -> Chunk("main", "Total time = ", 1)
            [] mainPc = "total_count" -> Chunk("main", ToString(duration), 1)
            [] mainPc = "total_seconds" -> Chunk("main", " seconds", 1)
            [] mainPc = "total_endl" -> Endl("main"))
    /\ mainPc' = CASE mainPc = "total_text" -> "total_count"
                   [] mainPc = "total_count" -> "total_seconds"
                   [] mainPc = "total_seconds" -> "total_endl"
                   [] mainPc = "total_endl" -> "return"
    /\ UNCHANGED <<programId, program, mainIdx, where, upc, piece, coutMutex,
                   now, wake, start, stop, duration, exitCode,
                   acquired, released, awaited, exhausted,
                   skew, late, entry>>

---------------------------------------------------------------------------
(* CreateCoffee / CreateToast *)

\* std::lock_guard<std::mutex> lock(coutMutex)
UnitLock(u) ==
    /\ Runs(u) /\ At(u) = "lock"
    /\ MutexFree
    /\ coutMutex' = u
    /\ upc' = [upc EXCEPT ![u] = @ + 1]
    /\ acquired' = [acquired EXCEPT ![u] = @ + 1]
    /\ UNCHANGED <<programId, program, mainPc, mainIdx, where, piece, console,
                   now, wake, start, stop, duration, exitCode,
                   released, awaited, exhausted,
                   skew, late, entry>>

\* the closing brace of the inner block: ~lock_guard unlocks coutMutex
UnitUnlock(u) ==
    /\ Runs(u) /\ At(u) = "unlock"
    /\ coutMutex' = "none"
    /\ upc' = [upc EXCEPT ![u] = @ + 1]
    /\ released' = [released EXCEPT ![u] = @ + 1]
    /\ UNCHANGED <<programId, program, mainPc, mainIdx, where, piece, console,
                   now, wake, start, stop, duration, exitCode,
                   acquired, awaited, exhausted,
                   skew, late, entry>>

\* std::cout << "Creating x..."  /  std::cout << "Created x!"
\* the next piece of the string reaches the console.
UnitWrite(u) ==
    /\ Runs(u) /\ At(u) \in {"write_start", "write_finish"}
    /\ LET text == IF At(u) = "write_start" THEN StartText(u) ELSE FinishText(u)
       IN console' = Append(console, Chunk(u, text, piece[u] + 1))
    /\ IF piece[u] + 1 = TextPieces
         THEN /\ piece' = [piece EXCEPT ![u] = 0]
              /\ upc' = [upc EXCEPT ![u] = @ + 1]
         ELSE /\ piece' = [piece EXCEPT ![u] = @ + 1]
              /\ upc' = upc
    /\ UNCHANGED <<programId, program, mainPc, mainIdx, where, coutMutex,
                   now, wake, start, stop, duration, exitCode,
                   acquired, released, awaited, exhausted,
                   skew, late, entry>>

\* << std::endl
UnitEndl(u) ==
    /\ Runs(u) /\ At(u) \in {"endl_start", "endl_finish"}
    /\ console' = Append(console, Endl(u))
    /\ upc' = [upc EXCEPT ![u] = @ + 1]
    /\ UNCHANGED <<programId, program, mainPc, mainIdx, where, piece,
                   coutMutex, now, wake, start, stop, duration, exitCode,
                   acquired, released, awaited, exhausted,
                   skew, late, entry>>

\* std::this_thread::sleep_for(milliseconds(d)): the thread blocks at least
\* until now + d.
UnitSleep(u) ==
    /\ Runs(u) /\ At(u) = "sleep_for"
    /\ wake' = [wake EXCEPT ![u] = now + DurationMs(u)]
    /\ upc' = [upc EXCEPT ![u] = @ + 1]
    /\ UNCHANGED <<programId, program, mainPc, mainIdx, where, piece,
                   coutMutex, console, now, start, stop, duration, exitCode,
                   acquired, released, awaited, exhausted,
                   skew, late, entry>>

\* sleep_for returns once the duration has elapsed, at that time or later.
UnitWake(u) ==
    /\ Runs(u) /\ At(u) = "asleep"
    /\ now >= wake[u]
    /\ wake' = [wake EXCEPT ![u] = 0]
    /\ upc' = [upc EXCEPT ![u] = @ + 1]
    /\ UNCHANGED <<programId, program, mainPc, mainIdx, where, piece,
                   coutMutex, console, now, start, stop, duration,
                   exitCode,
                   acquired, released, awaited, exhausted,
                   skew, late, entry>>

UnitStep(u) ==
    \/ UnitLock(u)
    \/ UnitUnlock(u)
    \/ UnitWrite(u)
    \/ UnitEndl(u)
    \/ UnitSleep(u)
    \/ UnitWake(u)

MainStep ==
    \/ MainBanner
    \/ MainBannerEndl
    \/ MainSwitch
    \/ MainConstruct
    \/ MainReturn
    \/ RunStartClock
    \/ RunCall
    \/ RunAsync
    \/ RunGetDeferred
    \/ RunGetCall
    \/ RunGetWait
    \/ RunUnitReturns
    \/ RunStopClock
    \/ RunDurationCast
    \/ RunTotal

\* Any statement of any context.
Instant == MainStep \/ \E u \in Units : UnitStep(u)

\* The units blocked in sleep_for.
Sleepers == {u \in Units : Runs(u) /\ At(u) = "asleep" /\ wake[u] > now}

\* No context can execute a statement: time passes up to the earliest
\* wake-up time.
Tick ==
    /\ ~ ENABLED Instant
    /\ Sleepers # {}
    /\ \E u \in Sleepers :
        /\ \A v \in Sleepers : wake[u] <= wake[v]
        /\ now' = wake[u]
    /\ UNCHANGED <<programId, program, mainPc, mainIdx, where, upc, piece,
                   coutMutex, console, wake, start, stop, duration, exitCode,
                   acquired, released, awaited, exhausted,
                   skew, late, entry>>

\* Run is between its two clock readings.  Time that passes, or a clock that
\* is set, before the first or after the second reading changes nothing the
\* program reads or writes.
Measuring ==
    mainPc \in {"call", "async", "get", "in_get", "in_unit", "stop_clock"}

\* Time passes although a context could execute a statement, or past the
\* wake-up time of a sleeping thread: sleep_for returns late, a thread that
\* can run is kept waiting, the process is stopped and continued.  The step
\* can be taken again and again.
TickLate ==
    /\ Measuring
    /\ now + Quantum <= MaxNow
    /\ now' = now + Quantum
    /\ late' = TRUE
    /\ UNCHANGED <<programId, program, mainPc, mainIdx, where, upc, piece,
                   coutMutex, console, wake, start, stop, duration, exitCode,
                   acquired, released, awaited, exhausted, skew, entry>>

\* high_resolution_clock is not steady (in libstdc++ it is system_clock):
\* the clock is set between the two readings of Run.  Whenever and however
\* often that happens in between, the second reading is off by the sum of
\* the amounts: the model sets the clock once, by that sum, when Run is about
\* to read it.
ClockSet ==
    /\ mainPc = "stop_clock"
    /\ skew = 0
    /\ \E d \in ClockSetAmounts : skew' = d
    /\ UNCHANGED <<programId, program, mainPc, mainIdx, where, upc, piece,
                   coutMutex, console, now, wake, start, stop, duration,
                   exitCode, acquired, released, awaited, exhausted, late,
                   entry>>

Next ==
    \/ MainBanner
    \/ MainBannerEndl
    \/ MainSwitch
    \/ MainConstruct
    \/ MainReturn
    \/ RunStartClock
    \/ RunCall
    \/ RunAsync
    \/ RunGetDeferred
    \/ RunGetCall
    \/ RunGetWait
    \/ RunUnitReturns
    \/ RunStopClock
    \/ RunDurationCast
    \/ RunTotal
    \/ \E u \in Units : UnitLock(u)
    \/ \E u \in Units : UnitUnlock(u)
    \/ \E u \in Units : UnitWrite(u)
    \/ \E u \in Units : UnitEndl(u)
    \/ \E u \in Units : UnitSleep(u)
    \/ \E u \in Units : UnitWake(u)
    \/ Tick
    \/ TickLate
    \/ ClockSet

Spec == Init /\ [][Next]_vars

\* The scheduler runs every thread that can run, and time passes.
FairSpec ==
    /\ Spec
    /\ WF_vars(MainStep)
    /\ \A u \in Units : WF_vars(UnitStep(u))
    /\ WF_vars(Tick)

TypeOK ==
    /\ entry \in Entries
    /\ programId \in ProgramIds
    /\ program \in {"none", "Program_01_async", "Program_02_async",
                    "Program_03_async_cout_mutex"}
    /\ mainIdx \in 1..2
    /\ where \in [Units -> {"none", "thread", "deferred", "caller"}]
    /\ \A u \in Units : upc[u] \in 0..(Len(Body(program)) + 1)
    /\ piece \in [Units -> 0..(TextPieces - 1)]
    /\ coutMutex \in Units \cup {"none"}
    /\ now \in Nat /\ skew \in Int
    /\ start \in Int /\ stop \in Int /\ duration \in Int
    /\ late \in BOOLEAN
    /\ skew \in ClockSetAmounts \cup {0}
    /\ exitCode \in {-1, 0}
    /\ acquired \in [Units -> Nat] /\ released \in [Units -> Nat]
    /\ awaited \in [Units -> Nat]
    /\ exhausted \in [Units -> BOOLEAN]

---------------------------------------------------------------------------
(* Reading the state *)

\* The console holds the chunk c.
Has(c) == \E i \in DOMAIN console : console[i] = c

\* What Run and the functions it calls have written: the console without
\* the two writes of main's banner line.
RunOutput ==
    IF entry # "concurrency" THEN console
    ELSE IF Len(console) <= 2 THEN << >> ELSE SubSeq(console, 3, Len(console))

IsPrefix(s, t) == Len(s) <= Len(t) /\ SubSeq(t, 1, Len(s)) = s

\* The writes of one complete line: the pieces of the text, then the endl.
Line(by, text) == [k \in 1..TextPieces |-> Chunk(by, text, k)] \o <<Endl(by)>>

\* The unit's "Created ...!" line is complete on the console.
FinishWritten(u) ==
    \E i \in DOMAIN console :
        /\ console[i] = Chunk(u, FinishText(u), TextPieces)
        /\ \E j \in (i + 1)..Len(console) : console[j] = Endl(u)

\* The unit's "Creating ..." line is complete on the console.
StartWritten(u) ==
    \E i \in DOMAIN console :
        /\ i < Len(console)
        /\ console[i] = Chunk(u, StartText(u), TextPieces)
        /\ console[i + 1] = Endl(u)

\* The unit has written its whole "Creating ..." text and its endl, with or
\* without other writes in between.
StartDone(u) ==
    \E i \in DOMAIN console :
        /\ console[i] = Chunk(u, StartText(u), TextPieces)
        /\ \E j \in (i + 1)..Len(console) : console[j] = Endl(u)

\* Run has begun to write its "Total time" line.
TotalStarted == Has(Chunk("main", "Total time = ", 1))

\* Run has written its whole "Total time" line.
TotalWritten == mainPc \in {"return", "exited"} /\ TotalStarted

\* Run has taken its second clock reading and converted the difference.
Measured ==
    mainPc \in {"total_text", "total_count", "total_seconds", "total_endl",
                "return", "exited"} /\ program # "none"

\* The unit has constructed its lock_guard and not yet destroyed it.
InGuardedSection(u) ==
    /\ upc[u] >= 1
    /\ \E i \in 1..(upc[u] - 1) :
        /\ i <= Len(Body(program))
        /\ Body(program)[i] = "lock"
        /\ \A j \in i..(upc[u] - 1) :
              j <= Len(Body(program)) => Body(program)[j] # "unlock"

\* The unit is in its sleep, or writing its finish message.
PastStartMessage(u) ==
    At(u) \in {"sleep_for", "asleep", "write_finish", "endl_finish"}

\* The unit is at one of the two insertions of its finish line.
WritingFinish(u) == Runs(u) /\ At(u) \in {"write_finish", "endl_finish"}

\* The output of the sequential Run when the number on its last line is n.
SequentialLines(n) ==
    Line("coffee", "Creating coffee...") \o Line("coffee", "Created coffee!")
    \o Line("toast", "Creating toast...") \o Line("toast", "Created toast!")
    \o <<Chunk("main", "Total time = ", 1), Chunk("main", n, 1),
         Chunk("main", " seconds", 1), Endl("main")>>

\* "Created coffee!" and its endl are on the console before the first piece
\* of "Created toast!".
CoffeeFirst ==
    \A j \in DOMAIN console :
        console[j] = Chunk("toast", "Created toast!", 1) =>
            \E i \in 1..(j - 1) :
                /\ console[i] = Chunk("coffee", "Created coffee!", TextPieces)
                /\ \E k \in (i + 1)..(j - 1) : console[k] = Endl("coffee")

\* The whole seconds of a difference of e milliseconds, rounded toward zero.
WholeSeconds(e, n) ==
    IF e >= 0 THEN n * 1000 <= e /\ e < n * 1000 + 1000
              ELSE e <= n * 1000 /\ n * 1000 < e + 1000

---------------------------------------------------------------------------
(* C1 *)

\* C1: in both concurrent programs, Run starts its "Total time" line only
\* when the "Created coffee!" and the "Created toast!" line are both on the
\* console.
C1_TotalAfterBothFinished ==
    (Concurrent /\ TotalStarted) => \A u \in Units : FinishWritten(u)

\* Both tasks ran on threads of their own and Run has written its total.
C1_Witness ==
    /\ Concurrent
    /\ TotalWritten
    /\ \A u \in Units : where[u] = "thread" /\ FinishWritten(u)

(* C2 *)

\* C2: in the synchronized program at most one unit is between the
\* construction and the destruction of its lock_guard.
C2_MutualExclusion ==
    Synchronized =>
        Cardinality({u \in Units : InGuardedSection(u)}) <= 1

\* One unit is inside the guarded section while the other one waits at its
\* lock_guard.
C2_Witness ==
    /\ Synchronized
    /\ \E u, v \in Units :
        /\ u # v
        /\ InGuardedSection(u)
        /\ where[v] = "thread" /\ At(v) = "lock"

(* C3 *)

\* C3 as stated: in the synchronized program every piece of a unit's start
\* message is directly followed on the console by the next piece of the same
\* message, and its last piece by the unit's own endl.
C3_StartMessageUnbroken ==
    Synchronized =>
        \A u \in Units : \A i \in DOMAIN console :
            (console[i].by = u /\ console[i].text = StartText(u)
               /\ i < Len(console)) =>
                console[i + 1] =
                    IF console[i].part < TextPieces
                      THEN Chunk(u, StartText(u), console[i].part + 1)
                      ELSE Endl(u)

\* The positions of the console at which the unit's start message stands, or
\* will stand: from the first piece of its text to its first endl, or to the
\* end of the console when that endl is still to be written.
StartSpan(u) ==
    {i \in DOMAIN console :
        /\ \E f \in 1..i : console[f] = Chunk(u, StartText(u), 1)
        /\ \A e \in 1..(i - 1) : console[e] # Endl(u)}

\* C3, amended: in the synchronized program no write of the other unit's
\* start message and no write of Run stands inside a unit's start message.
\* Whatever else stands inside it is a write of the other unit's finish
\* message, which is made without the mutex.
C3_StartMessagesNotMixed ==
    Synchronized =>
        \A u \in Units : \A v \in Units \ {u} :
            /\ StartSpan(u) \cap StartSpan(v) = {}
            /\ \A i \in StartSpan(u) :
                /\ console[i].by # "main"
                /\ console[i].by = v =>
                      /\ FinishWritten(v) \/ WritingFinish(v)
                      /\ console[i] \in {Chunk(v, FinishText(v), k) :
                                            k \in 1..TextPieces} \cup {Endl(v)}

\* Both units ran on their own threads and both start lines are complete;
\* coffee's thread woke up late and wrote "Created coffee!" between the text
\* and the endl of toast's start message.
C3_Witness ==
    /\ Synchronized
    /\ \A u \in Units : where[u] = "thread" /\ StartDone(u)
    /\ \E i \in StartSpan("toast") :
          console[i] = Chunk("coffee", FinishText("coffee"), 1)

(* C4 *)

\* C4: in the synchronized program a unit that is sleeping or writing its
\* finish message does not own coutMutex.
C4_GuardReleasedBeforeSleep ==
    Synchronized =>
        \A u \in Units :
            PastStartMessage(u) => (coutMutex # u /\ ~ InGuardedSection(u))

\* One unit sleeps while the other one owns the mutex.
C4_Witness ==
    /\ Synchronized
    /\ \E u, v \in Units :
        /\ u # v
        /\ At(u) = "asleep"
        /\ coutMutex = v

(* C5 *)

\* The output of the sequential Run, as the claim lists it.
C5_Expected ==
    Line("coffee", "Creating coffee...") \o Line("coffee", "Created coffee!")
    \o Line("toast", "Creating toast...") \o Line("toast", "Created toast!")
    \o <<Chunk("main", "Total time = ", 1), Chunk("main", "5", 1),
         Chunk("main", " seconds", 1), Endl("main")>>

\* C5 as stated: the output of the sequential Run grows along the five
\* lines "Creating coffee...", "Created coffee!", "Creating toast...",
\* "Created toast!", "Total time = 5 seconds", and is exactly these lines
\* when Run has returned.
C5_SequentialOutput ==
    Sequential =>
        /\ IsPrefix(RunOutput, C5_Expected)
        /\ mainPc \in {"return", "exited"} => RunOutput = C5_Expected

\* C5, amended: the output of the sequential Run grows along the five lines
\* "Creating coffee...", "Created coffee!", "Creating toast...",
\* "Created toast!", "Total time = N seconds" and is exactly these lines when
\* Run has returned; N is the number of seconds Run has measured, which is 5
\* when nothing was delayed and the clock was not set in between.
C5_SequentialLinesInOrder ==
    Sequential =>
        /\ IsPrefix(RunOutput, SequentialLines(ToString(duration)))
        /\ mainPc \in {"return", "exited"} =>
              RunOutput = SequentialLines(ToString(duration))
        /\ (Measured /\ ~ late /\ skew = 0) => duration = 5

\* The sequential program has finished with its five lines written, the
\* last one with 6 seconds: a sleep_for returned late.
C5_Witness ==
    /\ Sequential
    /\ mainPc = "exited"
    /\ late
    /\ RunOutput = SequentialLines("6")

(* C6 *)

\* C6 as stated: in both concurrent programs the "Created coffee!" line is
\* complete before the first piece of "Created toast!" is written, in every
\* execution.
C6_CoffeeFinishesFirst == Concurrent => CoffeeFirst

\* C6, amended: in both concurrent programs the "Created coffee!" line is
\* complete before the first piece of "Created toast!" is written in every
\* execution in which nothing is delayed, and in every execution in which
\* the toast task is deferred (it then runs inside toast_future.get(), after
\* coffee_future.get() has returned).
C6_CoffeeFirstUnlessDelayed ==
    (Concurrent /\ (~ late \/ where["toast"] \in {"deferred", "caller"}))
        => CoffeeFirst

\* Both tasks ran on threads of their own, nothing was delayed, and both
\* have finished.
C6_Witness ==
    /\ Concurrent
    /\ ~ late
    /\ \A u \in Units : where[u] = "thread" /\ FinishWritten(u)
    /\ mainPc = "in_get"

(* C7 *)

\* C7: in both concurrent programs the elapsed time Run measures is the
\* maximum of the two durations, 3000 ms, reported as 3 seconds, and is less
\* than the sum of the durations.
C7_ElapsedIsMax ==
    (Concurrent /\ Measured) =>
        /\ stop - start = 3000
        /\ duration = 3
        /\ stop - start < 2000 + 3000

(* C8 *)

\* C8 as stated: in the sequential program the elapsed time Run measures is
\* the sum of the two durations, 2000 + 3000 ms, and the number on the
\* "Total time" line is that time in whole seconds, 5.
C8_SequentialElapsedIsSum ==
    (Sequential /\ Measured) =>
        /\ stop - start = 2000 + 3000
        /\ duration = 5
        /\ \A i \in DOMAIN console :
              (i > 1 /\ console[i - 1] = Chunk("main", "Total time = ", 1))
                 => console[i] = Chunk("main", "5", 1)

\* C8, amended: in the sequential program the time that passes between the
\* two clock readings of Run is at least the sum of the two durations,
\* 2000 + 3000 ms, and exactly that sum when nothing is delayed; the elapsed
\* time Run measures differs from it by the amount the clock was set in
\* between; and the number on the "Total time" line is the measured time
\* rounded toward zero to whole seconds, which is 5 when nothing was delayed
\* and the clock was not set.
C8_SequentialElapsedAtLeastSum ==
    (Sequential /\ Measured) =>
        /\ (stop - start) - skew >= 2000 + 3000
        /\ ~ late => (stop - start) - skew = 2000 + 3000
        /\ (~ late /\ skew = 0) => (stop - start = 5000 /\ duration = 5)
        /\ WholeSeconds(stop - start, duration)
        /\ \A i \in DOMAIN console :
              (i > 1 /\ console[i - 1] = Chunk("main", "Total time = ", 1))
                 => console[i] = Chunk("main", ToString(duration), 1)

\* The sequential Run has written the number of seconds of a run in which a
\* sleep_for returned 1500 ms late: 6500 ms, 6 seconds.
C8_Witness ==
    /\ Sequential
    /\ Measured
    /\ late
    /\ stop - start = 6500
    /\ Has(Chunk("main", "6", 1))

(* C9 *)

\* C9: under fair scheduling every run ends: main returns 0, after Run has
\* written its "Total time" line when programId selects a program or main
\* has no switch; no thread is left waiting.
C9_Terminates ==
    <>(/\ mainPc = "exited"
       /\ exitCode = 0
       /\ (programId \in 1..3 \/ entry # "concurrency") => TotalWritten
       /\ \A u \in Units : ~ Active(u))

\* The synchronized program has ended with exit code 0 after both units
\* went through the mutex on threads of their own.
C9_Witness ==
    /\ Synchronized
    /\ mainPc = "exited"
    /\ exitCode = 0
    /\ TotalWritten
    /\ \A u \in Units : where[u] = "thread" /\ FinishWritten(u)

(* C10 *)

\* C10: once past the switch, the main of concurrency/main.cpp runs the sequential program for id 1,
\* the unsynchronized one for id 2 and the synchronized one for id 3, and
\* only that one; for any other id no unit is started, nothing but the banner
\* is written, no time is measured, and main returns 0.
C10_ModeSelection ==
    entry = "concurrency" =>
        /\ mainPc \notin {"banner", "banner_endl", "switch"} =>
            /\ programId = 1 => program = "Program_01_async"
            /\ programId = 2 => program = "Program_02_async"
            /\ programId = 3 => program = "Program_03_async_cout_mutex"
            /\ programId \notin {1, 2, 3} => program = "none"
        /\ programId = 1 =>
            /\ \A u \in Units : where[u] \in {"none", "caller"}
            /\ coutMutex = "none"
        /\ programId = 2 => coutMutex = "none"
        /\ programId = 3 =>
            \A u \in Units : Has(Chunk(u, StartText(u), 1)) => upc[u] >= 2
        /\ programId \notin {1, 2, 3} =>
            /\ RunOutput = << >>
            /\ \A u \in Units : upc[u] = 0 /\ where[u] = "none"
            /\ start = 0 /\ stop = 0 /\ duration = 0
            /\ mainPc = "exited" => exitCode = 0
        /\ mainPc = "exited" => exitCode = 0

\* main has returned for an id without a case label, with only the banner
\* on the console.
C10_Witness ==
    /\ entry = "concurrency"
    /\ programId \notin {1, 2, 3}
    /\ mainPc = "exited"
    /\ exitCode = 0
    /\ Len(console) = 2

(* C11 *)

\* The unit has called sleep_for.
SleepBegun(u) ==
    \E i \in 1..(upc[u] - 1) :
        i <= Len(Body(program)) /\ Body(program)[i] = "sleep_for"

\* The unit's sleep_for has returned.
SleepEnded(u) ==
    \E i \in 1..(upc[u] - 1) :
        i <= Len(Body(program)) /\ Body(program)[i] = "asleep"

\* C11: in the synchronized program both units are dispatched before get()
\* is called on either future, and when both run on threads of their own and
\* nothing is delayed their two sleeps overlap in time: the mutex does not
\* put one unit's sleep after the other's.
C11_GuardDoesNotSerialize ==
    Synchronized =>
        /\ (\E u \in Units :
                awaited[u] > 0 \/ mainPc \in {"get", "in_get", "in_unit"})
              => \A v \in Units : where[v] # "none"
        /\ (~ late /\ \A u \in Units : where[u] = "thread") =>
              /\ \A u, v \in Units : SleepEnded(u) => SleepBegun(v)
              /\ \A u \in Units :
                    At(u) = "asleep" => wake[u] = IF u = "coffee" THEN 2000
                                                                  ELSE 3000

\* Both units are blocked in sleep_for at the same time while Run is
\* blocked in coffee_future.get().
C11_Witness ==
    /\ Synchronized
    /\ mainPc = "in_get"
    /\ awaited = [u \in Units |-> IF u = "coffee" THEN 1 ELSE 0]
    /\ \A u \in Units :
        /\ where[u] = "thread"
        /\ At(u) = "asleep"
        /\ wake[u] > now

(* C12 *)

\* C12 as stated: when std::async cannot start a thread for a unit of a
\* concurrent run, the run is aborted and nothing of it is written.
C12_AbortWithoutOutput ==
    (Concurrent /\ \E u \in Units : exhausted[u]) =>
        /\ RunOutput = << >>
        /\ mainPc \notin {"get", "in_get", "in_unit", "stop_clock",
                          "duration_cast",
                          "total_text", "total_count", "total_seconds",
                          "total_endl"}

(* C13 *)

\* C13: in every program a unit starts its sleep only when it has written
\* its "Creating" text and endl, and writes the first piece of its "Created" line only
\* when its sleep of 2000 ms (coffee) or 3000 ms (toast) has ended.
C13_StepsInOrder ==
    \A u \in Units :
        /\ At(u) = "asleep" =>
              wake[u] >= (IF u = "coffee" THEN 2000 ELSE 3000)
        /\ (SleepBegun(u) \/ At(u) \in {"sleep_for", "asleep"})
              => StartDone(u)
        /\ (\E i \in DOMAIN console :
                console[i].by = u /\ console[i].text = FinishText(u)) =>
              /\ StartDone(u)
              /\ SleepEnded(u)
              /\ now >= (IF u = "coffee" THEN 2000 ELSE 3000)
              /\ At(u) \notin {"sleep_for", "asleep"}

\* In the unsynchronized program coffee has written its finish line while
\* toast is still asleep.
C13_Witness ==
    /\ program = "Program_02_async"
    /\ FinishWritten("coffee")
    /\ At("toast") = "asleep"
    /\ StartWritten("toast")

(* C14 *)

\* C14: in the synchronized program each of the two units constructs its
\* lock_guard once, before the first piece of its start message, and
\* destroys it once, before its finish message; a run that has ended has
\* made two acquisitions and two releases, and the mutex is owned exactly
\* while an acquisition has not been released.
C14_OneAcquisitionPerUnit ==
    Synchronized =>
        /\ \A u \in Units :
            /\ released[u] <= acquired[u]
            /\ acquired[u] <= 1
            /\ Has(Chunk(u, StartText(u), 1)) => acquired[u] = 1
            /\ Has(Chunk(u, FinishText(u), 1)) => released[u] = 1
            /\ coutMutex = u <=> acquired[u] = released[u] + 1
        /\ TotalStarted =>
              /\ acquired["coffee"] + acquired["toast"] = 2
              /\ released["coffee"] + released["toast"] = 2

\* The synchronized run has ended after one acquisition and one release by
\* each unit, both on threads of their own.
C14_Witness ==
    /\ Synchronized
    /\ mainPc = "exited"
    /\ \A u \in Units :
        where[u] = "thread" /\ acquired[u] = 1 /\ released[u] = 1

(* C15 *)

\* C15: in the unsynchronized program no write is guarded: coutMutex is
\* never acquired, and a unit that is not asleep can always execute its next
\* statement, whatever the other unit is in the middle of.
C15_WritesUnguarded ==
    program = "Program_02_async" =>
        /\ coutMutex = "none"
        /\ \A u \in Units :
            /\ acquired[u] = 0
            /\ (Runs(u) /\ At(u) # "asleep") => ENABLED UnitStep(u)

\* Corrupted output: the text of one unit's start message is separated from
\* its own endl by a piece of the other unit's text.
C15_Witness ==
    /\ program = "Program_02_async"
    /\ \E u, v \in Units : \E i \in DOMAIN console :
        /\ u # v
        /\ i < Len(console)
        /\ console[i] = Chunk(u, StartText(u), TextPieces)
        /\ console[i + 1] = Chunk(v, StartText(v), 1)

(* C16 *)

\* C16: in the synchronized program a unit that writes its finish line has
\* released its lock_guard and takes no other; its write does not depend on
\* the mutex (it can proceed whoever owns it), and the step that makes the
\* write neither acquires nor releases coutMutex.
C16_FinishWriteUnguarded ==
    /\ [](Synchronized =>
            \A u \in Units : WritingFinish(u) =>
                /\ coutMutex # u
                /\ acquired[u] = released[u]
                /\ ENABLED UnitStep(u))
    /\ [][Synchronized =>
            \A u \in Units :
                (WritingFinish(u) /\ console' # console
                   /\ console'[Len(console')].by = u) =>
                    /\ coutMutex' = coutMutex
                    /\ acquired' = acquired
                    /\ released' = released]_vars

\* One unit has written the text of its finish line and is about to write
\* the endl while the other one owns coutMutex (a state only the timing, not
\* the lock, can exclude).
C16_Witness ==
    /\ Synchronized
    /\ \E u, v \in Units :
        /\ u # v
        /\ Runs(u) /\ At(u) = "endl_finish"
        /\ Has(Chunk(u, FinishText(u), TextPieces))
        /\ coutMutex = v

(* C17 *)

\* C17: in both concurrent programs coffee is dispatched before toast, yet
\* when both tasks are on threads of their own and neither has executed a
\* statement, either of them can execute the first one: the order of the two
\* start messages is open.
C17_StartOrderOpen ==
    Concurrent =>
        /\ (where["toast"] # "none" => where["coffee"] # "none")
        /\ (\A u \in Units : where[u] = "thread" /\ upc[u] = 1 /\ piece[u] = 0)
              => \A u \in Units : ENABLED UnitStep(u)

\* Toast, dispatched second, has written the first piece of the run, and
\* the run has ended.
C17_Witness ==
    /\ Concurrent
    /\ \A u \in Units : where[u] = "thread"
    /\ RunOutput # << >>
    /\ RunOutput[1] = Chunk("toast", "Creating toast...", 1)
    /\ TotalWritten

(* C18 *)

\* How many times the chunk c has been written.
Count(c) == Cardinality({i \in DOMAIN console : console[i] = c})

\* The four unit messages.
C18_Messages ==
    {<<"coffee", "Creating coffee...">>, <<"coffee", "Created coffee!">>,
     <<"toast", "Creating toast...">>, <<"toast", "Created toast!">>}

\* C18: in every program no piece of a unit message and no part of the
\* "Total time" line is ever written twice, and when Run has returned every
\* piece of the four messages is on the console once, each unit has written
\* its two endl, the "Total time" line is there once, and nothing else is.
C18_EachMessageOnce ==
    program # "none" =>
        /\ \A m \in C18_Messages : \A k \in 1..TextPieces :
              Count(Chunk(m[1], m[2], k)) <= 1
        /\ \A u \in Units : Count(Endl(u)) <= 2
        /\ Count(Chunk("main", "Total time = ", 1)) <= 1
        /\ Count(Chunk("main", " seconds", 1)) <= 1
        /\ mainPc \in {"return", "exited"} =>
              /\ \A m \in C18_Messages : \A k \in 1..TextPieces :
                    Count(Chunk(m[1], m[2], k)) = 1
              /\ \A u \in Units : Count(Endl(u)) = 2
              /\ Count(Chunk("main", "Total time = ", 1)) = 1
              /\ Count(Chunk("main", " seconds", 1)) = 1
              /\ Count(Endl("main")) = IF entry = "concurrency" THEN 2 ELSE 1
              /\ Len(RunOutput) = 4 * (TextPieces + 1) + 4

\* An unsynchronized run has ended with interleaved start lines and still
\* every message once.
C18_Witness ==
    /\ program = "Program_02_async"
    /\ mainPc = "exited"
    /\ ~ StartWritten("coffee")
    /\ \A m \in C18_Messages : Count(Chunk(m[1], m[2], TextPieces)) = 1

(* C19 *)

\* Both tasks were deferred by std::async.
BothDeferred == \A u \in Units : where[u] \in {"deferred", "caller"}

\* C19: whatever std::async chooses for each of the two tasks, Run calls
\* get() at most once on each future, on coffee_future before toast_future
\* and on both before it takes the second clock reading; both finish lines
\* are complete before the "Total time" line begins; when both tasks are
\* deferred the output of Run grows along the output of the sequential
\* program (its four lines in the same order, then the total Run measured);
\* and under fair scheduling the run ends with its total written.
C19_AnyLaunchPolicy ==
    /\ [](Concurrent =>
            /\ \A u \in Units : awaited[u] <= 1
            /\ awaited["toast"] = 1 =>
                  awaited["coffee"] = 1 /\ FinishWritten("coffee")
            /\ (mainPc = "stop_clock" \/ Measured) =>
                  \A u \in Units : awaited[u] = 1
            /\ TotalStarted => \A u \in Units : FinishWritten(u)
            /\ BothDeferred =>
                  /\ IsPrefix(RunOutput, SequentialLines(ToString(duration)))
                  /\ Has(Chunk("toast", "Creating toast...", 1))
                        => FinishWritten("coffee")
            /\ mainPc = "exited" => (TotalWritten /\ exitCode = 0))
    /\ <>(mainPc = "exited")

\* Both tasks were deferred and the run has ended with the output of the
\* sequential program.
C19_Witness ==
    /\ Concurrent
    /\ BothDeferred
    /\ mainPc = "exited"
    /\ RunOutput = C5_Expected
    /\ \A u \in Units : awaited[u] = 1

====
